---------------------------- MODULE Spec2Model ----------------------------
(***************************************************************************)
(* A model of the decomposable-folding example                             *)
(* (folding/src/examples/example_decomposable_folding.rs): the instance    *)
(* and witness combination laws, the evaluation environment TestFoldingEnv *)
(* and the run of test_decomposable_folding over a small prime field, with *)
(* the scheme constructor and the checker it calls; and of the constraint  *)
(* Env of the MIPS interpreter (optimism/src/mips/constraints.rs).         *)
(*                                                                         *)
(* Arrays keep the source's 0-based indices: an array of length n is a     *)
(* function with domain 0..(n-1).                                          *)
(***************************************************************************)
EXTENDS Integers, Sequences, FiniteSets, TLC

VARIABLES
    combineCall,  \* the call of Instance::combine / Witness::combine in progress
    pairs,        \* the two instance/witness pairs lent to FoldingEnv::new
    env,          \* the TestFoldingEnv built by FoldingEnv::new
    query,        \* the lookup made on env, with its result
    pc,           \* where test_decomposable_folding stands
    stage,        \* its block: 1 fold adds, 2 fold subs, 3 fold mixed
    inputs,       \* inputs1 and inputs2 of the test
    fq_sponge,    \* the events of the transcript shared by the folds
    fold,         \* the call of fold_instance_witness_pair in progress
    left,         \* the checked pair of the first block
    right,        \* the checked pair of the second block
    allValid,     \* whether every fresh pair made so far satisfies its gate
    schemeCall,   \* the call of DecomposableFoldingScheme::new in progress
    checker,      \* the pair held by an ExtendedProvider (the checker)
    checkResult,  \* the outcome of the last check made on checker
    mipsEnv,      \* the Env of mips/constraints.rs: its three fields
    mipsCall,     \* the operation called on mipsEnv, with what it returned
    allocated     \* the positions alloc_scratch has returned, in order

testVars == <<pc, stage, inputs, fq_sponge, fold, left, right, allValid>>

checkVars == <<checker, checkResult>>

mipsVars == <<mipsEnv, mipsCall, allocated>>

otherVars == <<schemeCall, checkVars, mipsVars>>

foldingVars == <<combineCall, pairs, env, query, testVars>>

vars == <<combineCall, pairs, env, query, testVars, otherVars>>

---------------------------------------------------------------------------
(* The scalar field Fp and the commitment group.                           *)

\* The modulus of the scalar field Fp (a small prime stands for the
\* Pasta modulus).
P == 5

Fp == 0..(P - 1)

FpAdd(x, y) == (x + y) % P

FpMul(x, y) == (x * y) % P

FpSub(x, y) == (x + P - (y % P)) % P

\* Fp::from(u32)
FpFrom(x) == x % P

\* The group of the curve has prime order P; a point is named by its
\* discrete logarithm, so adding points adds logarithms and
\* point.mul(scalar) multiplies the logarithm by the scalar.
CurveAdd(g, h) == (g + h) % P

CurveMul(g, scalar) == (g * scalar) % P

\* Length of a 0-based array.
Len0(v) == Cardinality(DOMAIN v)

RECURSIVE SumTo(_, _)
\* Sum over i in 0..(n-1) of f[i].
SumTo(f, n) == IF n = 0 THEN 0 ELSE f[n - 1] + SumTo(f, n - 1)

---------------------------------------------------------------------------
(* Bounds of the model.                                                    *)

\* Witness tables of the combination and environment checks have
\* 0..MaxRows rows.
MaxRows == 3

\* Sample tables are built from a seed in 0..MaxSeed.
MaxSeed == 1

\* Sample instance challenges and alphas are built from values in
\* 0..MaxChal.
MaxChal == 1

---------------------------------------------------------------------------
(* Columns, selectors and challenges.                                      *)

TestColumn == {"A", "B", "C"}

DynamicSelector == {"SelecAdd", "SelecSub"}

TestChallenge == {"Beta", "Gamma", "JointCombiner"}

CurrOrNext == {"Curr", "Next"}

\* Side as usize: Left = 0, Right = 1.
Side == {0, 1}

\* impl Index<TestColumn> for TestWitness
IndexColumn(witness, index) ==
    CASE index = "A" -> witness[0]
      [] index = "B" -> witness[1]
      [] index = "C" -> witness[2]

\* impl Index<DynamicSelector> for TestWitness
IndexSelector(witness, index) ==
    CASE index = "SelecAdd" -> witness[3]
      [] index = "SelecSub" -> witness[4]

\* impl Index<TestChallenge> for TestInstance
IndexChallenge(instance, index) ==
    CASE index = "Beta" -> instance.challenges[0]
      [] index = "Gamma" -> instance.challenges[1]
      [] index = "JointCombiner" -> instance.challenges[2]

---------------------------------------------------------------------------
(* Alphas and commitments (collaborators of the example).                  *)

RECURSIVE FpPow(_, _)
FpPow(x, n) == IF n = 0 THEN 1 ELSE FpMul(x, FpPow(x, n - 1))

\* One alpha power per constraint of the system.
NumAlphas == Cardinality(DynamicSelector)

\* Alphas::new(alpha): get(i) = alpha^i.
AlphasNew(alpha) == [i \in 0..(NumAlphas - 1) |-> FpPow(alpha, i)]

\* Alphas::combine(a, b, challenge): power i is a.get(i) + challenge * b.get(i).
AlphasCombine(a, b, challenge) ==
    [i \in DOMAIN a |-> FpAdd(a[i], FpMul(challenge, b[i]))]

\* Alphas::get(i): None out of range.
AlphasGet(alphas, i) ==
    IF i \in DOMAIN alphas THEN [some |-> TRUE, value |-> alphas[i]]
    ELSE [some |-> FALSE]

\* srs.commit_evaluations_non_hiding(domain, w).elems[0]: the Lagrange-basis
\* commitment sum_i w[i] * G_i, with G_i the point of logarithm i + 1.
Commit(evals) ==
    SumTo([i \in DOMAIN evals |-> evals[i] * (i + 1)], Len0(evals)) % P

---------------------------------------------------------------------------
(* TestInstance and TestWitness.                                           *)

\* as InstanceCombine, with the challenge left out of the commitments
InstanceCombineNoScale(a, b, challenge) ==
    [commitments |-> [i \in 0..4 |->
        CurveAdd(a.commitments[i], b.commitments[i])],
     challenges |-> [i \in 0..2 |->
        FpAdd(a.challenges[i], FpMul(challenge, b.challenges[i]))],
     alphas |-> AlphasCombine(a.alphas, b.alphas, challenge)]

\* Instance::combine
InstanceCombine(a, b, challenge) ==
    [commitments |-> [i \in 0..4 |->
        CurveAdd(a.commitments[i], CurveMul(b.commitments[i], challenge))],
     challenges |-> [i \in 0..2 |->
        FpAdd(a.challenges[i], FpMul(challenge, b.challenges[i]))],
     alphas |-> AlphasCombine(a.alphas, b.alphas, challenge)]

\* as WitnessCombine, stopping after the three witness columns
WitnessCombineThreeColumns(a, b, challenge) ==
    [k \in 0..4 |-> [i \in DOMAIN a[k] |->
        IF k < 3 /\ i \in DOMAIN b[k]
        THEN FpAdd(a[k][i], FpMul(challenge, b[k][i]))
        ELSE a[k][i]]]

\* Witness::combine: both zips stop at the shorter side; the rest of a is
\* returned as it was.
WitnessCombine(a, b, challenge) ==
    [k \in 0..4 |-> [i \in DOMAIN a[k] |->
        IF i \in DOMAIN b[k]
        THEN FpAdd(a[k][i], FpMul(challenge, b[k][i]))
        ELSE a[k][i]]]

\* Witness::rows
WitnessRows(witness) == Len0(witness[0])

\* instance_from_witness, its random challenges and alpha given
InstanceFromWitness(witness, challenges, alpha) ==
    [commitments |-> [k \in 0..4 |-> Commit(witness[k])],
     challenges |-> challenges,
     alphas |-> AlphasNew(alpha)]

---------------------------------------------------------------------------
(* Sample inputs.                                                          *)

\* A table of n rows whose columns differ from each other and whose rows
\* differ from each other.
SampleWitness(n, s) ==
    [k \in 0..4 |-> [i \in 0..(n - 1) |-> (s + k + (s + 1) * i) % P]]

SampleWitnesses(rows) ==
    {SampleWitness(n, s) : n \in rows, s \in 0..MaxSeed}

SampleChallenges ==
    {[i \in 0..2 |-> (c + i * (c + 1)) % P] : c \in 0..MaxChal}

SampleInstancesOf(w) ==
    {InstanceFromWitness(w, ch, alpha) :
        ch \in SampleChallenges, alpha \in 0..MaxChal}

SampleInstances ==
    UNION {SampleInstancesOf(w) : w \in SampleWitnesses({2})}

---------------------------------------------------------------------------
(* The combination laws, called on sample inputs.                          *)

NoCall == [op |-> "none"]

NoPairs == [held |-> FALSE]

NoEnv == [built |-> FALSE, panicked |-> FALSE]

NoQuery == [op |-> "none"]

NoFold == [step |-> "none"]

NoPair == [held |-> FALSE]

NoInputs == [chosen |-> FALSE]

NoCheck == [checked |-> FALSE]

\* Nothing called yet, the test not started.
Idle ==
    /\ combineCall = NoCall
    /\ pairs = NoPairs
    /\ env = NoEnv
    /\ query = NoQuery
    /\ pc = "start"
    /\ stage = 1
    /\ inputs = NoInputs
    /\ fq_sponge = << >>
    /\ fold = NoFold
    /\ left = NoPair
    /\ right = NoPair
    /\ allValid = TRUE
    /\ schemeCall = NoCall
    /\ checker = NoPair
    /\ checkResult = NoCheck
    /\ mipsEnv = [scratch_state_idx |-> 0, constraints |-> << >>, lookups |-> << >>]
    /\ mipsCall = NoCall
    /\ allocated = << >>

InitCombine == Idle

CallInstanceCombine ==
    \E a \in SampleInstances, b \in SampleInstances, challenge \in Fp :
        /\ combineCall = NoCall
        /\ combineCall' = [op |-> "Instance::combine", a |-> a, b |-> b,
                           challenge |-> challenge,
                           out |-> InstanceCombine(a, b, challenge)]
        /\ UNCHANGED <<pairs, env, query, testVars, otherVars>>

\* The call returns a witness whatever the row counts are: nothing in
\* Witness::combine panics.
CallWitnessCombine ==
    \E a \in SampleWitnesses(0..MaxRows), b \in SampleWitnesses(0..MaxRows),
       challenge \in Fp :
        /\ combineCall = NoCall
        /\ combineCall' = [op |-> "Witness::combine", a |-> a, b |-> b,
                           challenge |-> challenge,
                           panicked |-> FALSE,
                           out |-> WitnessCombine(a, b, challenge)]
        /\ UNCHANGED <<pairs, env, query, testVars, otherVars>>

\* The caller takes the result; the next call starts afresh.
ReturnCombine ==
    /\ combineCall # NoCall
    /\ combineCall' = NoCall
    /\ UNCHANGED <<pairs, env, query, testVars, otherVars>>

NextCombine == CallInstanceCombine \/ CallWitnessCombine \/ ReturnCombine

SpecCombine == InitCombine /\ [][NextCombine]_vars

\* C4: Instance::combine(a, b, r) is component-wise linear: each of the 5
\* commitments is a.commitments[i] + r * b.commitments[i], each of the 3
\* challenges is a.challenges[i] + r * b.challenges[i], the alphas are
\* Alphas::combine(a.alphas, b.alphas, r), and the result has as many
\* commitments and challenges as a and b.
C4_InstanceCombineLinear ==
    combineCall.op = "Instance::combine" =>
        LET a == combineCall.a
            b == combineCall.b
            r == combineCall.challenge
            out == combineCall.out
        IN /\ DOMAIN out.commitments = 0..4
           /\ DOMAIN out.commitments = DOMAIN a.commitments
           /\ DOMAIN out.commitments = DOMAIN b.commitments
           /\ DOMAIN out.challenges = 0..2
           /\ DOMAIN out.challenges = DOMAIN a.challenges
           /\ DOMAIN out.challenges = DOMAIN b.challenges
           /\ \A i \in 0..4 :
                out.commitments[i] = (a.commitments[i] + r * b.commitments[i]) % P
           /\ \A i \in 0..2 :
                out.challenges[i] = (a.challenges[i] + r * b.challenges[i]) % P
           /\ out.alphas = AlphasCombine(a.alphas, b.alphas, r)

\* A combination whose challenge is neither 0 nor 1 and whose right side is
\* nonzero in a commitment and in a challenge.
C4_Witness ==
    /\ combineCall.op = "Instance::combine"
    /\ combineCall.challenge > 1
    /\ \E i \in 0..4 : combineCall.b.commitments[i] # 0
    /\ \E i \in 0..2 : combineCall.b.challenges[i] # 0
    /\ combineCall.out # combineCall.a

\* Both witnesses have the same number of rows in every column.
SameShape(a, b) == \A k \in 0..4 : DOMAIN a[k] = DOMAIN b[k]

\* C5: for witnesses of the same number of rows, Witness::combine(a, b, r)
\* holds a.table[row] + r * b.table[row] in every row of each of the 5
\* columns (3 witness columns, 2 selector columns).
C5_WitnessCombineLinear ==
    (combineCall.op = "Witness::combine" /\ SameShape(combineCall.a, combineCall.b)) =>
        LET a == combineCall.a
            b == combineCall.b
            r == combineCall.challenge
            out == combineCall.out
        IN /\ DOMAIN out = 0..4
           /\ \A k \in 0..4 :
                /\ DOMAIN out[k] = DOMAIN a[k]
                /\ \A row \in DOMAIN a[k] :
                     out[k][row] = (a[k][row] + r * b[k][row]) % P

\* Two witnesses of two rows or more combined under a challenge that is
\* neither 0 nor 1, the right one nonzero in a selector column.
C5_Witness ==
    /\ combineCall.op = "Witness::combine"
    /\ SameShape(combineCall.a, combineCall.b)
    /\ WitnessRows(combineCall.a) >= 2
    /\ combineCall.challenge > 1
    /\ \E row \in DOMAIN combineCall.b[4] : combineCall.b[4][row] # 0

\* C6: Witness::combine keeps the row count, and a call whose witnesses
\* have unequal row counts is rejected with a fatal error instead of
\* returning a witness.
C6_MismatchedRowsRejected ==
    combineCall.op = "Witness::combine" =>
        IF WitnessRows(combineCall.a) = WitnessRows(combineCall.b)
        THEN /\ ~combineCall.panicked
             /\ WitnessRows(combineCall.out) = WitnessRows(combineCall.a)
        ELSE combineCall.panicked

---------------------------------------------------------------------------
(* TestFoldingEnv.                                                         *)

\* slice::rotate_right(mid), for mid <= len
RotateRight(evals, mid) ==
    [i \in DOMAIN evals |-> evals[(i + Len0(evals) - mid) % Len0(evals)]]

\* slice::rotate_left(mid), for mid <= len
RotateLeft(evals, mid) ==
    [i \in DOMAIN evals |-> evals[(i + mid) % Len0(evals)]]

\* FoldingEnv::new: rotate_left(1) panics on a column without rows.
EnvNew(instances, witnesses) ==
    IF \E side \in Side : \E k \in 0..4 : Len0(witnesses[side][k]) < 1
    THEN [built |-> FALSE, panicked |-> TRUE]
    ELSE [built |-> TRUE, panicked |-> FALSE,
          instances |-> instances,
          curr_witnesses |-> witnesses,
          next_witnesses |->
              [side \in Side |-> [k \in 0..4 |->
                  RotateLeft(witnesses[side][k], 1)]]]

\* FoldingEnv::domain_size
DomainSize(e) == 2

\* as Col, column C read from slot 1
ColWrongSlot(e, col, curr_or_next, side) ==
    LET wit == IF curr_or_next = "Curr" THEN e.curr_witnesses[side]
               ELSE e.next_witnesses[side]
    IN CASE col = "A" -> wit[0]
         [] col = "B" -> wit[1]
         [] col = "C" -> wit[1]

\* FoldingEnv::col
Col(e, col, curr_or_next, side) ==
    LET wit == IF curr_or_next = "Curr" THEN e.curr_witnesses[side]
               ELSE e.next_witnesses[side]
    IN CASE col = "A" -> wit[0]
         [] col = "B" -> wit[1]
         [] col = "C" -> wit[2]

\* FoldingEnv::challenge
Challenge(e, challenge, side) ==
    CASE challenge = "Beta" -> e.instances[side].challenges[0]
      [] challenge = "Gamma" -> e.instances[side].challenges[1]
      [] challenge = "JointCombiner" -> e.instances[side].challenges[2]

\* FoldingEnv::alpha: get(i).unwrap()
Alpha(e, i, side) == AlphasGet(e.instances[side].alphas, i)

\* as Selector, the two slots swapped
SelectorSwapped(e, s, side) ==
    LET wit == e.curr_witnesses[side]
    IN CASE s = "SelecAdd" -> wit[4]
         [] s = "SelecSub" -> wit[3]

\* as Selector, reading the row-shifted tables
SelectorShifted(e, s, side) ==
    LET wit == e.next_witnesses[side]
    IN CASE s = "SelecAdd" -> wit[3]
         [] s = "SelecSub" -> wit[4]

\* FoldingEnv::selector
Selector(e, s, side) ==
    LET wit == e.curr_witnesses[side]
    IN CASE s = "SelecAdd" -> wit[3]
         [] s = "SelecSub" -> wit[4]

\* Two pairs over the same domain, as the caller of FoldingEnv::new holds
\* them.
SamplePairs ==
    {[held |-> TRUE,
      instances |-> [side \in Side |-> IF side = 0 THEN il ELSE ir],
      witnesses |-> [side \in Side |-> IF side = 0 THEN wl ELSE wr]] :
        <<wl, il, wr, ir>> \in
            UNION {{<<wl, il, wr, ir>> :
                       il \in SampleInstancesOf(wl), ir \in SampleInstancesOf(wr)} :
                   <<wl, wr>> \in UNION {SampleWitnesses({n}) \X SampleWitnesses({n}) :
                                            n \in 0..MaxRows}}}

InitEnv == InitCombine

CallEnvNew ==
    \E p \in SamplePairs :
        /\ pairs = NoPairs
        /\ pairs' = p
        /\ env' = EnvNew(p.instances, p.witnesses)
        /\ UNCHANGED <<combineCall, query, testVars, otherVars>>

CallCol ==
    \E col \in TestColumn, curr_or_next \in CurrOrNext, side \in Side :
        /\ env.built /\ query = NoQuery
        /\ query' = [op |-> "col", col |-> col, curr_or_next |-> curr_or_next,
                     side |-> side, panicked |-> FALSE,
                     result |-> Col(env, col, curr_or_next, side)]
        /\ UNCHANGED <<combineCall, pairs, env, testVars, otherVars>>

CallChallenge ==
    \E challenge \in TestChallenge, side \in Side :
        /\ env.built /\ query = NoQuery
        /\ query' = [op |-> "challenge", challenge |-> challenge,
                     side |-> side, panicked |-> FALSE,
                     result |-> Challenge(env, challenge, side)]
        /\ UNCHANGED <<combineCall, pairs, env, testVars, otherVars>>

\* An index past the instance's alphas makes unwrap() panic.
CallAlpha ==
    \E i \in 0..NumAlphas, side \in Side :
        /\ env.built /\ query = NoQuery
        /\ LET got == Alpha(env, i, side)
           IN query' = IF got.some
                       THEN [op |-> "alpha", i |-> i, side |-> side,
                             panicked |-> FALSE, result |-> got.value]
                       ELSE [op |-> "alpha", i |-> i, side |-> side,
                             panicked |-> TRUE]
        /\ UNCHANGED <<combineCall, pairs, env, testVars, otherVars>>

CallSelector ==
    \E s \in DynamicSelector, side \in Side :
        /\ env.built /\ query = NoQuery
        /\ query' = [op |-> "selector", s |-> s, side |-> side,
                     panicked |-> FALSE,
                     result |-> Selector(env, s, side)]
        /\ UNCHANGED <<combineCall, pairs, env, testVars, otherVars>>

CallDomainSize ==
    /\ env.built /\ query = NoQuery
    /\ query' = [op |-> "domain_size", panicked |-> FALSE,
                 result |-> DomainSize(env)]
    /\ UNCHANGED <<combineCall, pairs, env, testVars, otherVars>>

\* The lookup returns to its caller.
ReturnQuery ==
    /\ query # NoQuery
    /\ query' = NoQuery
    /\ UNCHANGED <<combineCall, pairs, env, testVars, otherVars>>

\* The environment (or the panic of its construction) and the pairs go
\* out of scope.
DropEnv ==
    /\ pairs # NoPairs /\ query = NoQuery
    /\ pairs' = NoPairs
    /\ env' = NoEnv
    /\ UNCHANGED <<combineCall, query, testVars, otherVars>>

NextEnv ==
    \/ CallEnvNew
    \/ CallCol
    \/ CallChallenge
    \/ CallAlpha
    \/ CallSelector
    \/ CallDomainSize
    \/ ReturnQuery
    \/ DropEnv

SpecEnv == InitEnv /\ [][NextEnv]_vars

\* The Next view wraps around: for each side, column and row i,
\* col(column, Next, side)[i] = col(column, Curr, side)[(i + 1) mod rows],
\* so the next of the last row is row 0; the Curr view is the witness
\* given to Env::new.
C8_EnvView ==
    env.built =>
        \A side \in Side :
            /\ env.curr_witnesses[side] = pairs.witnesses[side]
            /\ \A column \in TestColumn :
                 LET curr == Col(env, column, "Curr", side)
                     next == Col(env, column, "Next", side)
                     rows == Len0(curr)
                 IN /\ DOMAIN next = DOMAIN curr
                    /\ \A i \in 0..(rows - 1) : next[i] = curr[(i + 1) % rows]
                    /\ next[rows - 1] = curr[0]

\* The same on the lookups made: a Next lookup returns the rotation of the
\* witness column of its side.
C8_NextLookup ==
    (query.op = "col" /\ query.curr_or_next = "Next") =>
        LET curr == IndexColumn(pairs.witnesses[query.side], query.col)
            rows == Len0(curr)
        IN \A i \in 0..(rows - 1) : query.result[i] = curr[(i + 1) % rows]

C9_DomainSizeIsRows ==
    env.built =>
        /\ DomainSize(env) = WitnessRows(pairs.witnesses[0])
        /\ DomainSize(env) = WitnessRows(pairs.witnesses[1])

\* C10: lookups are side- and slot-faithful: col(c, Curr, side) is column c
\* (A, B, C at slots 0, 1, 2) of that side's witness, selector(s, side) is
\* the unshifted indicator table (SelecAdd, SelecSub at slots 3, 4) of that
\* side's witness, challenge(ch, side) is that side's instance challenge at
\* the index of ch; each agrees with the Index implementations.
C10_AtomResolution ==
    env.built =>
        \A side \in Side :
            LET witness == pairs.witnesses[side]
                instance == pairs.instances[side]
            IN /\ Col(env, "A", "Curr", side) = witness[0]
               /\ Col(env, "B", "Curr", side) = witness[1]
               /\ Col(env, "C", "Curr", side) = witness[2]
               /\ \A c \in TestColumn :
                    Col(env, c, "Curr", side) = IndexColumn(witness, c)
               /\ Selector(env, "SelecAdd", side) = witness[3]
               /\ Selector(env, "SelecSub", side) = witness[4]
               /\ \A s \in DynamicSelector :
                    Selector(env, s, side) = IndexSelector(witness, s)
               /\ Challenge(env, "Beta", side) = instance.challenges[0]
               /\ Challenge(env, "Gamma", side) = instance.challenges[1]
               /\ Challenge(env, "JointCombiner", side) = instance.challenges[2]
               /\ \A ch \in TestChallenge :
                    Challenge(env, ch, side) = IndexChallenge(instance, ch)

\* A selector lookup on the right side of an environment whose two sides
\* differ and whose selector tables change under the row shift.
C10_Witness ==
    /\ env.built
    /\ query.op = "selector" /\ query.side = 1
    /\ pairs.witnesses[0] # pairs.witnesses[1]
    /\ pairs.instances[0].challenges # pairs.instances[1].challenges
    /\ query.result = IndexSelector(pairs.witnesses[1], query.s)
    /\ query.result # RotateLeft(query.result, 1)

---------------------------------------------------------------------------
(* Expressions and the constraints of the example.                         *)

\* A 0-based array from a sequence.
Arr(seq) == [i \in 0..(Len(seq) - 1) |-> seq[i + 1]]

\* get_col: the cell of a column in the current row
GetCol(col) == [op |-> "Cell", col |-> col, row |-> "Curr"]

ExpAdd(l, r) == [op |-> "Add", l |-> l, r |-> r]

ExpSub(l, r) == [op |-> "Sub", l |-> l, r |-> r]

ExpMul(l, r) == [op |-> "Mul", l |-> l, r |-> r]

ExpSelector(s) == [op |-> "Selector", s |-> s]

ExpAlpha(i) == [op |-> "Alpha", i |-> i]

ExpError == [op |-> "Error"]

ExpZero == [op |-> "Zero"]

\* constraints(): an addition gate a + b - c and a subtraction gate
\* a - b - c, one constraint each. A Vec of expressions is a sequence.
Constraints ==
    LET a == GetCol("A")
        b == GetCol("B")
        c == GetCol("C")
        add == ExpSub(ExpAdd(a, b), c)
        sub == ExpSub(ExpSub(a, b), c)
    IN [s \in DynamicSelector |->
           IF s = "SelecAdd" THEN <<add>> ELSE <<sub>>]

\* The common constraints given to DecomposableFoldingScheme::new: vec![]
CommonConstraints == << >>

\* The order of DynamicSelector (derive Ord), which a BTreeMap iterates in.
SelectorOrder == <<"SelecAdd", "SelecSub">>

RECURSIVE Flatten(_, _, _)
\* The constraints of the selectors from position n on, in order, each
\* with its selector, then the common ones (selector "None").
Flatten(constraints, common, n) ==
    IF n > Len(SelectorOrder)
    THEN [i \in 1..Len(common) |-> [selector |-> "None", exp |-> common[i]]]
    ELSE [i \in 1..Len(constraints[SelectorOrder[n]]) |->
             [selector |-> SelectorOrder[n],
              exp |-> constraints[SelectorOrder[n]][i]]]
         \o Flatten(constraints, common, n + 1)

\* as SchemeTerms, the alpha index starting again at 0 for each selector
\* and for the common list
SchemeTermsRestart(constraints, common) ==
    LET flat == Flatten(constraints, common, 1)
    IN [i \in 1..Len(flat) |->
           [selector |-> flat[i].selector, exp |-> flat[i].exp,
            alpha |-> Cardinality({j \in 1..(i - 1) :
                                      flat[j].selector = flat[i].selector})]]

\* Each constraint with its alpha power, from one running index.
SchemeTerms(constraints, common) ==
    LET flat == Flatten(constraints, common, 1)
    IN [i \in 1..Len(flat) |->
           [selector |-> flat[i].selector, exp |-> flat[i].exp, alpha |-> i - 1]]

\* alpha^k * selector_s * constraint (alpha^k * constraint when common)
TermExp(t) ==
    IF t.selector = "None" THEN ExpMul(ExpAlpha(t.alpha), t.exp)
    ELSE ExpMul(ExpAlpha(t.alpha), ExpMul(ExpSelector(t.selector), t.exp))

RECURSIVE SumExp(_)
SumExp(terms) ==
    IF Len(terms) = 0 THEN ExpZero
    ELSE IF Len(terms) = 1 THEN TermExp(terms[1])
    ELSE ExpAdd(SumExp(SubSeq(terms, 1, Len(terms) - 1)), TermExp(terms[Len(terms)]))

\* The terms a fold evaluates: those of the selector given for fresh
\* pairs (and the common ones), all of them for relaxed pairs.
TermsFor(terms, selector) ==
    SelectSeq(terms, LAMBDA t : selector = "None" \/ t.selector \in {selector, "None"})

\* DecomposableFoldingScheme::new: the scheme and final_constraint, the
\* global identity minus the error term.
SchemeNew(constraints, common) ==
    LET terms == SchemeTerms(constraints, common)
    IN [terms |-> terms,
        final_constraint |-> ExpSub(SumExp(terms), ExpError)]

Scheme == SchemeNew(Constraints, CommonConstraints)

RECURSIVE ExpDegree(_)
\* The degree of an expression in the folded variables.
ExpDegree(exp) ==
    CASE exp.op \in {"Cell", "Selector", "Alpha", "Error"} -> 1
      [] exp.op = "Zero" -> 0
      [] exp.op = "Mul" -> ExpDegree(exp.l) + ExpDegree(exp.r)
      [] OTHER ->
            IF ExpDegree(exp.l) > ExpDegree(exp.r)
            THEN ExpDegree(exp.l) ELSE ExpDegree(exp.r)

FoldingDegree == ExpDegree(SumExp(Scheme.terms))

RECURSIVE Eval(_, _, _, _, _)
\* The value of an expression in one row of one side of an Env, atoms
\* resolved by the Env, the error atom by the error vector.
Eval(exp, e, side, row, error_vec) ==
    CASE exp.op = "Cell" -> Col(e, exp.col, exp.row, side)[row]
      [] exp.op = "Selector" -> Selector(e, exp.s, side)[row]
      [] exp.op = "Alpha" -> Alpha(e, exp.i, side).value
      [] exp.op = "Error" -> error_vec[row]
      [] exp.op = "Zero" -> 0
      [] exp.op = "Add" ->
            FpAdd(Eval(exp.l, e, side, row, error_vec), Eval(exp.r, e, side, row, error_vec))
      [] exp.op = "Sub" ->
            FpSub(Eval(exp.l, e, side, row, error_vec), Eval(exp.r, e, side, row, error_vec))
      [] exp.op = "Mul" ->
            FpMul(Eval(exp.l, e, side, row, error_vec), Eval(exp.r, e, side, row, error_vec))

\* Polynomials in the formal variable X, by their coefficients.
PolyOf(l, r) == [d \in 0..FoldingDegree |-> IF d = 0 THEN l ELSE IF d = 1 THEN r ELSE 0]

PolyAdd(p, q) == [d \in 0..FoldingDegree |-> FpAdd(p[d], q[d])]

PolySub(p, q) == [d \in 0..FoldingDegree |-> FpSub(p[d], q[d])]

PolyMul(p, q) ==
    [d \in 0..FoldingDegree |->
        SumTo([i \in 0..d |-> p[i] * q[d - i]], d + 1) % P]

RECURSIVE EvalPoly(_, _, _)
\* The expression in one row with every atom left + X * right.
EvalPoly(exp, e, row) ==
    CASE exp.op = "Cell" ->
            PolyOf(Col(e, exp.col, exp.row, 0)[row], Col(e, exp.col, exp.row, 1)[row])
      [] exp.op = "Selector" ->
            PolyOf(Selector(e, exp.s, 0)[row], Selector(e, exp.s, 1)[row])
      [] exp.op = "Alpha" ->
            PolyOf(Alpha(e, exp.i, 0).value, Alpha(e, exp.i, 1).value)
      [] exp.op = "Zero" -> PolyOf(0, 0)
      [] exp.op = "Add" -> PolyAdd(EvalPoly(exp.l, e, row), EvalPoly(exp.r, e, row))
      [] exp.op = "Sub" -> PolySub(EvalPoly(exp.l, e, row), EvalPoly(exp.r, e, row))
      [] exp.op = "Mul" -> PolyMul(EvalPoly(exp.l, e, row), EvalPoly(exp.r, e, row))

---------------------------------------------------------------------------
(* Relaxed pairs, the checker and the fold.                                *)

\* The rows of the domain of the test: D::new(2)
DomainRows == 2

ZeroVec == [row \in 0..(DomainRows - 1) |-> 0]

\* A fresh pair relaxed: its error is the zero vector.
Relax(instance, witness) ==
    [held |-> TRUE, instance |-> instance, witness |-> witness,
     error_commitment |-> Commit(ZeroVec), error_vec |-> ZeroVec]

\* ExtendedProvider::new(instance, witness).check_rec: the expression in
\* every row, in an Env with the pair on both sides.
CheckRows(pair, exp) ==
    LET e == EnvNew([side \in Side |-> pair.instance],
                    [side \in Side |-> pair.witness])
    IN [row \in 0..(WitnessRows(pair.witness) - 1) |->
           Eval(exp, e, 0, row, pair.error_vec)]

\* Checker::check: every row is zero
CheckPasses(pair, exp) ==
    LET rows == CheckRows(pair, exp)
    IN \A row \in DOMAIN rows : rows[row] = 0

\* The cross terms of an expression between the two sides of an Env: per
\* row, the coefficients of X and X^2.
CrossTerms(exp, e) ==
    [j \in 0..1 |-> [row \in 0..(DomainRows - 1) |-> EvalPoly(exp, e, row)[j + 1]]]

\* The error of the folded pair: E_l + r t0 + r^2 t1 + r^3 E_r.
CombineError(el, er, t, r) ==
    [row \in DOMAIN el |->
        (el[row] + r * t[0][row] + r * r * t[1][row] + r * r * r * er[row]) % P]

\* The folded pair of two relaxed pairs under the challenge r.
FoldedPair(l, r, t, challenge) ==
    [held |-> TRUE,
     instance |-> InstanceCombine(l.instance, r.instance, challenge),
     witness |-> WitnessCombine(l.witness, r.witness, challenge),
     error_commitment |->
        (l.error_commitment + challenge * Commit(t[0])
            + challenge * challenge * Commit(t[1])
            + challenge * challenge * challenge * r.error_commitment) % P,
     error_vec |-> CombineError(l.error_vec, r.error_vec, t, challenge)]

---------------------------------------------------------------------------
(* test_decomposable_folding.                                              *)

\* inputs1 and inputs2 of the test, as [a, b]
Inputs1 == [a |-> Arr(<<4, 2>>), b |-> Arr(<<2, 1>>)]

Inputs2 == [a |-> Arr(<<5, 6>>), b |-> Arr(<<4, 3>>)]

TestInputs == {Inputs1, Inputs2}

\* u32 subtraction; every input of the test has x >= y, so it never
\* overflows.
U32Sub(x, y) == x - y

\* tests::add_witness
AddWitness(a, b) ==
    [k \in 0..4 |->
        CASE k = 0 -> a
          [] k = 1 -> b
          [] k = 2 -> [i \in DOMAIN a |-> a[i] + b[i]]
          [] k = 3 -> [i \in DOMAIN a |-> 1]
          [] k = 4 -> [i \in DOMAIN a |-> 0]]

\* tests::sub_witness
SubWitness(a, b) ==
    [k \in 0..4 |->
        CASE k = 0 -> a
          [] k = 1 -> b
          [] k = 2 -> [i \in DOMAIN a |-> U32Sub(a[i], b[i])]
          [] k = 3 -> [i \in DOMAIN a |-> 0]
          [] k = 4 -> [i \in DOMAIN a |-> 1]]

\* tests::int_to_witness
IntToWitness(x) == [k \in 0..4 |-> [i \in DOMAIN x[k] |-> FpFrom(x[k][i])]]

\* The witness of a gate from an input of the test.
GateWitness(s, in) ==
    IF s = "SelecAdd" THEN IntToWitness(AddWitness(in.a, in.b))
    ELSE IntToWitness(SubWitness(in.a, in.b))

\* A witness with column C off by one in its last row: its gate's
\* constraint is violated there.
Violated(witness) ==
    [witness EXCEPT ![2][DomainRows - 1] = FpAdd(@, 1)]

\* The witness satisfies gate s in every row, its indicator 1 and the other
\* indicator 0.
SatisfiesGate(witness, s) ==
    \A row \in DOMAIN witness[0] :
        /\ IndexSelector(witness, s)[row] = 1
        /\ \A o \in DynamicSelector \ {s} : IndexSelector(witness, o)[row] = 0
        /\ IF s = "SelecAdd"
           THEN FpAdd(witness[0][row], witness[1][row]) = witness[2][row]
           ELSE FpSub(witness[0][row], witness[1][row]) = witness[2][row]

\* make_pair: instance_from_witness draws the challenges and the alpha
FreshPairs(witness) ==
    {Relax(InstanceFromWitness(witness, [i \in 0..2 |-> (c + i * (c + 1)) % P], c),
           witness) : c \in 0..MaxChal}

\* The selector the block of the test folds with.
StageSelector(n) ==
    CASE n = 1 -> "SelecAdd"
      [] n = 2 -> "SelecSub"
      [] OTHER -> "None"

InitTest == Idle

\* let inputs1 = ...; let inputs2 = ...
ChooseInputs ==
    \E in1 \in TestInputs, in2 \in TestInputs :
        /\ pc = "start"
        /\ inputs' = [chosen |-> TRUE, inputs1 |-> in1, inputs2 |-> in2]
        /\ pc' = "block"
        /\ UNCHANGED <<otherVars, combineCall, pairs, env, query,
                       stage, fq_sponge, fold, left, right, allValid>>

\* The fold is called with the sponge; it absorbs nothing yet.
FoldCall(l, r, selector) ==
    [step |-> "called", id |-> stage, selector |-> selector, left |-> l, right |-> r]

\* Blocks 1 and 2: two fresh pairs of the block's gate, made from inputs1
\* and inputs2 (one of them possibly violating the gate), are folded with
\* Some(selector).
CallFoldFresh ==
    /\ pc = "block" /\ stage \in {1, 2}
    /\ \E bad \in {"none", "left", "right"} :
         LET s == StageSelector(stage)
             wit1 == GateWitness(s, inputs.inputs1)
             wit2 == GateWitness(s, inputs.inputs2)
             witness1 == IF bad = "left" THEN Violated(wit1) ELSE wit1
             witness2 == IF bad = "right" THEN Violated(wit2) ELSE wit2
         IN \E l \in FreshPairs(witness1), r \in FreshPairs(witness2) :
               /\ fold' = FoldCall(l, r, s)
               /\ allValid' = (allValid /\ bad = "none")
    /\ pc' = "fold"
    /\ UNCHANGED <<otherVars, combineCall, pairs, env, query,
                   stage, inputs, fq_sponge, left, right>>

\* Block 3: the two relaxed pairs are folded with None.
CallFoldRelaxed ==
    /\ pc = "block" /\ stage = 3
    /\ fold' = FoldCall(left, right, "None")
    /\ pc' = "fold"
    /\ UNCHANGED <<otherVars, combineCall, pairs, env, query,
                   stage, inputs, fq_sponge, left, right, allValid>>

\* The events of one fold on the transcript.
Event(id, what) == [fold |-> id, what |-> what]

\* Step 1: the commitments and challenges of both instances are absorbed.
FoldAbsorbInstances ==
    /\ pc = "fold" /\ fold.step = "called"
    /\ fq_sponge' = fq_sponge \o <<Event(fold.id, "absorb_instance_left"),
                                   Event(fold.id, "absorb_instance_right")>>
    /\ fold' = [fold EXCEPT !.step = "absorbed"]
    /\ UNCHANGED <<otherVars, combineCall, pairs, env, query,
                   pc, stage, inputs, left, right, allValid>>

\* Steps 2 and 3a: the cross terms are computed in an Env of the two
\* pairs, committed, and the commitments absorbed.
FoldCrossTerms ==
    /\ pc = "fold" /\ fold.step = "absorbed"
    /\ LET e == EnvNew([side \in Side |-> IF side = 0 THEN fold.left.instance
                                          ELSE fold.right.instance],
                       [side \in Side |-> IF side = 0 THEN fold.left.witness
                                          ELSE fold.right.witness])
           exp == SumExp(TermsFor(Scheme.terms, fold.selector))
           t == CrossTerms(exp, e)
       IN fold' = [step |-> "committed", id |-> fold.id, selector |-> fold.selector,
                   left |-> fold.left, right |-> fold.right,
                   cross_terms |-> t,
                   cross_commitments |-> [j \in 0..1 |-> Commit(t[j])]]
    /\ fq_sponge' = fq_sponge \o <<Event(fold.id, "absorb_cross_term_0"),
                                   Event(fold.id, "absorb_cross_term_1")>>
    /\ UNCHANGED <<otherVars, combineCall, pairs, env, query,
                   pc, stage, inputs, left, right, allValid>>

\* as FoldChallenge, the challenge drawn before the cross terms are
\* absorbed
FoldChallengeEarly ==
    \E r \in Fp :
        /\ pc = "fold" /\ fold.step = "absorbed"
        /\ ~(\E i \in DOMAIN fq_sponge : fq_sponge[i] = Event(fold.id, "challenge"))
        /\ fq_sponge' = Append(fq_sponge, Event(fold.id, "challenge"))
        /\ fold' = fold
        /\ UNCHANGED <<otherVars, combineCall, pairs, env, query,
                       pc, stage, inputs, left, right, allValid>>

\* Step 3b: the folding challenge is drawn from the transcript.
FoldChallenge ==
    \E r \in Fp :
        /\ pc = "fold" /\ fold.step = "committed"
        /\ fq_sponge' = Append(fq_sponge, Event(fold.id, "challenge"))
        /\ fold' = [step |-> "challenged", id |-> fold.id, selector |-> fold.selector,
                    left |-> fold.left, right |-> fold.right,
                    cross_terms |-> fold.cross_terms,
                    cross_commitments |-> fold.cross_commitments,
                    challenge |-> r]
        /\ UNCHANGED <<otherVars, combineCall, pairs, env, query,
                       pc, stage, inputs, left, right, allValid>>

\* Steps 4 and 5: the pairs are combined under the challenge and the
\* folded pair returned with the cross terms.
FoldCombine ==
    /\ pc = "fold" /\ fold.step = "challenged"
    /\ fold' = [step |-> "returned", id |-> fold.id, selector |-> fold.selector,
                left |-> fold.left, right |-> fold.right,
                cross_terms |-> fold.cross_terms,
                cross_commitments |-> fold.cross_commitments,
                challenge |-> fold.challenge,
                folded |-> FoldedPair(fold.left, fold.right,
                                      fold.cross_terms, fold.challenge)]
    /\ pc' = "check"
    /\ UNCHANGED <<otherVars, combineCall, pairs, env, query,
                   stage, inputs, fq_sponge, left, right, allValid>>

\* checker.check(&final_constraint) passes; the pair is taken back out of
\* the checker and the test goes on to its next block.
CheckOk ==
    /\ pc = "check"
    /\ CheckPasses(fold.folded, Scheme.final_constraint)
    /\ left' = IF stage = 1 THEN fold.folded ELSE left
    /\ right' = IF stage = 2 THEN fold.folded ELSE right
    /\ stage' = IF stage < 3 THEN stage + 1 ELSE stage
    /\ pc' = IF stage < 3 THEN "block" ELSE "done"
    /\ UNCHANGED <<otherVars, combineCall, pairs, env, query,
                   inputs, fq_sponge, fold, allValid>>

\* checker.check(&final_constraint) panics: the test ends.
CheckPanic ==
    /\ pc = "check"
    /\ ~CheckPasses(fold.folded, Scheme.final_constraint)
    /\ pc' = "panicked"
    /\ UNCHANGED <<otherVars, combineCall, pairs, env, query,
                   stage, inputs, fq_sponge, fold, left, right, allValid>>

NextTest ==
    \/ ChooseInputs
    \/ CallFoldFresh
    \/ CallFoldRelaxed
    \/ FoldAbsorbInstances
    \/ FoldCrossTerms
    \/ FoldChallenge
    \/ FoldCombine
    \/ CheckOk
    \/ CheckPanic

SpecTest == InitTest /\ [][NextTest]_vars

\* The folded pair of the call in progress passes the checker.
FoldedPasses == CheckPasses(fold.folded, Scheme.final_constraint)

\* C1: completeness: for each selector s and two fresh pairs whose
\* witnesses satisfy gate s in every row, the pair folded with Some(s)
\* passes Checker::check(final_constraint), whatever challenge r is drawn.
C1_Completeness ==
    (/\ fold.step = "returned"
     /\ fold.selector # "None"
     /\ SatisfiesGate(fold.left.witness, fold.selector)
     /\ SatisfiesGate(fold.right.witness, fold.selector)) => FoldedPasses

\* Two valid fresh pairs of the subtraction gate folded under a challenge
\* that is neither 0 nor 1, the folded pair passing the check.
C1_Witness ==
    /\ fold.step = "returned"
    /\ fold.selector = "SelecSub"
    /\ SatisfiesGate(fold.left.witness, fold.selector)
    /\ SatisfiesGate(fold.right.witness, fold.selector)
    /\ fold.challenge > 1
    /\ fold.folded.witness # fold.left.witness
    /\ FoldedPasses

\* C2: accumulation is closed under further folding: with every fresh pair
\* valid, the pair of each of the three stages (two add pairs folded with
\* Some(SelecAdd), two subtract pairs with Some(SelecSub), the two results
\* with None) passes Checker::check(final_constraint), so the test never
\* panics.
C2_AccumulationClosed ==
    allValid =>
        /\ pc # "panicked"
        /\ fold.step = "returned" => FoldedPasses
        /\ left.held => CheckPasses(left, Scheme.final_constraint)
        /\ right.held => CheckPasses(right, Scheme.final_constraint)
        /\ pc = "done" =>
              /\ fold.selector = "None"
              /\ fold.left = left /\ fold.right = right

\* The test done with valid pairs only, its mixed fold under a challenge
\* that is neither 0 nor 1 and with a folded error that is not zero.
C2_Witness ==
    /\ pc = "done" /\ allValid
    /\ fold.selector = "None"
    /\ fold.challenge > 1
    /\ fold.folded.error_vec # ZeroVec
    /\ FoldedPasses

\* The witness has its gate's indicators but violates the gate's
\* constraint in some row.
ViolatesGate(witness, s) ==
    /\ \A row \in DOMAIN witness[0] :
            /\ IndexSelector(witness, s)[row] = 1
            /\ \A o \in DynamicSelector \ {s} : IndexSelector(witness, o)[row] = 0
    /\ ~SatisfiesGate(witness, s)

\* The challenges under which the fold in progress, its cross terms
\* committed, gives a pair that passes the checker.
PassingChallenges ==
    {r \in Fp : CheckPasses(FoldedPair(fold.left, fold.right, fold.cross_terms, r),
                            Scheme.final_constraint)}

\* A fresh fold, its cross terms committed, of one pair that violates its
\* gate and one that satisfies it.
OneInvalidSide ==
    /\ fold.step = "committed"
    /\ fold.selector # "None"
    /\ \/ /\ ViolatesGate(fold.left.witness, fold.selector)
          /\ SatisfiesGate(fold.right.witness, fold.selector)
       \/ /\ SatisfiesGate(fold.left.witness, fold.selector)
          /\ ViolatesGate(fold.right.witness, fold.selector)

\* The alpha power that weights the constraint of the gate in the instance
\* of the pair that violates it.
AlphaOfViolatedGate ==
    LET k == CHOOSE k \in 0..(NumAlphas - 1) : SelectorOrder[k + 1] = fold.selector
        bad == IF ViolatesGate(fold.left.witness, fold.selector)
               THEN fold.left ELSE fold.right
    IN bad.instance.alphas[k]

\* C3 as stated: folding a fresh pair that violates its gate with a valid
\* one passes the checker for at most (constraint degree) of the P
\* challenges.
C3_SoundnessAsStated ==
    OneInvalidSide => Cardinality(PassingChallenges) <= FoldingDegree

\* C3: soundness over the small field, every challenge enumerated: folding
\* a fresh pair that violates its gate with a valid one fails the checker
\* for all but at most (constraint degree) of the P challenges, when the
\* violating pair's instance weights the violated constraint with a
\* nonzero alpha power.
C3_Soundness ==
    (OneInvalidSide /\ AlphaOfViolatedGate # 0) =>
        Cardinality(PassingChallenges) <= FoldingDegree

\* A violating right pair of the subtraction gate with a nonzero alpha:
\* only some challenge passes.
C3_Witness ==
    /\ OneInvalidSide
    /\ fold.selector = "SelecSub"
    /\ ViolatesGate(fold.right.witness, fold.selector)
    /\ AlphaOfViolatedGate # 0
    /\ PassingChallenges # {}
    /\ Cardinality(PassingChallenges) <= FoldingDegree

\* The place of an event in the order of one fold.
Rank(what) ==
    CASE what \in {"absorb_instance_left", "absorb_instance_right"} -> 1
      [] what \in {"absorb_cross_term_0", "absorb_cross_term_1"} -> 2
      [] what = "challenge" -> 3

\* C7: on the shared transcript, within a fold both instances are absorbed
\* before the two cross-term commitments, these before the challenge is
\* drawn, and the challenge is used only once drawn; the events of two
\* folds never interleave: a fold's first absorb follows the challenge of
\* every earlier fold.
C7_TranscriptOrder ==
    /\ \A i \in DOMAIN fq_sponge : \A j \in DOMAIN fq_sponge :
          i < j =>
             \/ fq_sponge[i].fold < fq_sponge[j].fold
             \/ /\ fq_sponge[i].fold = fq_sponge[j].fold
                /\ Rank(fq_sponge[i].what) <= Rank(fq_sponge[j].what)
                /\ fq_sponge[i] # fq_sponge[j]
    /\ \A j \in DOMAIN fq_sponge :
          /\ Rank(fq_sponge[j].what) >= 2 =>
                \A what \in {"absorb_instance_left", "absorb_instance_right"} :
                    \E i \in 1..(j - 1) : fq_sponge[i] = Event(fq_sponge[j].fold, what)
          /\ Rank(fq_sponge[j].what) = 3 =>
                \A what \in {"absorb_cross_term_0", "absorb_cross_term_1"} :
                    \E i \in 1..(j - 1) : fq_sponge[i] = Event(fq_sponge[j].fold, what)
          /\ \A f \in 1..(fq_sponge[j].fold - 1) :
                \E i \in 1..(j - 1) : fq_sponge[i] = Event(f, "challenge")
    /\ fold.step \in {"challenged", "returned"} =>
          \E i \in DOMAIN fq_sponge : fq_sponge[i] = Event(fold.id, "challenge")
    /\ fold.step \in {"called", "absorbed", "committed"} =>
          ~(\E i \in DOMAIN fq_sponge : fq_sponge[i] = Event(fold.id, "challenge"))

\* The three folds of the test done on the one transcript.
C7_Witness ==
    /\ pc = "done"
    /\ Len(fq_sponge) = 15
    /\ fq_sponge[5] = Event(1, "challenge")
    /\ fq_sponge[6] = Event(2, "absorb_instance_left")

---------------------------------------------------------------------------
(* DecomposableFoldingScheme::new on sample constraint systems.            *)

\* A selector has at most MaxCons constraints, and so has the common list.
MaxCons == 2

\* The constraint expressions the sample systems are made of.
SampleExps == {Constraints[s][1] : s \in DynamicSelector}

\* The lists of at most MaxCons sample constraints.
SampleLists == UNION {[1..n -> SampleExps] : n \in 0..MaxCons}

InitScheme == Idle

\* Scheme::new(constraints, common_constraints, srs, domain)
CallSchemeNew ==
    \E constraints \in [DynamicSelector -> SampleLists], common \in SampleLists :
        /\ schemeCall = NoCall
        /\ schemeCall' = [op |-> "Scheme::new", constraints |-> constraints,
                          common |-> common,
                          out |-> SchemeNew(constraints, common)]
        /\ UNCHANGED <<foldingVars, checkVars, mipsVars>>

\* The caller takes the scheme and the final constraint.
ReturnScheme ==
    /\ schemeCall # NoCall
    /\ schemeCall' = NoCall
    /\ UNCHANGED <<foldingVars, checkVars, mipsVars>>

NextScheme == CallSchemeNew \/ ReturnScheme

SpecScheme == InitScheme /\ [][NextScheme]_vars

RECURSIVE Summands(_)
\* The summands of a sum of products, left to right.
Summands(exp) ==
    CASE exp.op = "Add" -> Append(Summands(exp.l), exp.r)
      [] exp.op = "Zero" -> << >>
      [] OTHER -> <<exp>>

\* C11: in the expression Scheme::new builds, every constraint is
\* multiplied by its own alpha power from one running index: the k-th
\* constraint (the selectors' lists in selector order, then the common
\* list) carries alpha power k - 1, so the powers are consecutive from 0
\* and no two constraints share one.
C11_RunningAlphaIndex ==
    schemeCall.op = "Scheme::new" =>
        LET m == schemeCall.constraints
            common == schemeCall.common
            out == schemeCall.out
            parts == Summands(out.final_constraint.l)
            na == Len(m["SelecAdd"])
            ns == Len(m["SelecSub"])
            nc == Len(common)
        IN /\ out.final_constraint.op = "Sub"
           /\ out.final_constraint.r = ExpError
           /\ Len(parts) = na + ns + nc
           /\ \A k \in 1..Len(parts) :
                /\ parts[k].op = "Mul"
                /\ parts[k].l = ExpAlpha(k - 1)
           /\ \A j \in 1..Len(parts) : \A k \in 1..Len(parts) :
                j # k => parts[j].l # parts[k].l
           /\ \A i \in 1..na :
                parts[i].r = ExpMul(ExpSelector("SelecAdd"), m["SelecAdd"][i])
           /\ \A i \in 1..ns :
                parts[na + i].r = ExpMul(ExpSelector("SelecSub"), m["SelecSub"][i])
           /\ \A i \in 1..nc : parts[na + ns + i].r = common[i]
           /\ Len(out.terms) = Len(parts)
           /\ {out.terms[k].alpha : k \in 1..Len(out.terms)} = 0..(Len(parts) - 1)

\* A system with two constraints under one selector, one under the other
\* and a common one.
C11_Witness ==
    /\ schemeCall.op = "Scheme::new"
    /\ Len(schemeCall.constraints["SelecAdd"]) = 2
    /\ Len(schemeCall.constraints["SelecSub"]) >= 1
    /\ Len(schemeCall.common) >= 1
    /\ Len(schemeCall.out.terms) >= 4

---------------------------------------------------------------------------
(* The checker on sample pairs.                                            *)

\* The rows of the sample tables: the columns A, B, C and the two
\* indicators, every value of C and every setting of the indicators.
SampleRows ==
    {[k \in 0..4 |-> CASE k = 0 -> 3
                       [] k = 1 -> 1
                       [] k = 2 -> c
                       [] k = 3 -> selec_add
                       [] k = 4 -> selec_sub] :
        c \in Fp, selec_add \in {0, 1}, selec_sub \in {0, 1}}

\* The error vectors of the sample pairs: zero (a fresh pair) or not.
SampleErrors == {ZeroVec, [row \in 0..(DomainRows - 1) |-> (row + 1) % P]}

\* The pairs given to the checker: a table over the domain, its instance
\* and an error vector.
SampleCheckPairs ==
    {[held |-> TRUE,
      instance |-> InstanceFromWitness(
                       [k \in 0..4 |-> [row \in 0..(DomainRows - 1) |-> rows[row][k]]],
                       [i \in 0..2 |-> (alpha + i) % P], alpha),
      witness |-> [k \in 0..4 |-> [row \in 0..(DomainRows - 1) |-> rows[row][k]]],
      error_commitment |-> Commit(error),
      error_vec |-> error] :
        rows \in [0..(DomainRows - 1) -> SampleRows],
        alpha \in 0..(MaxChal + 1),
        error \in SampleErrors}

\* as Check, reporting the last violated row
CheckLastRow(pair, exp) ==
    LET rows == CheckRows(pair, exp)
        bad == {row \in DOMAIN rows : rows[row] # 0}
    IN IF bad = {} THEN [checked |-> TRUE, ok |-> TRUE]
       ELSE LET last == CHOOSE row \in bad : \A o \in bad : row >= o
            IN [checked |-> TRUE, ok |-> FALSE, row |-> last, value |-> rows[last]]

\* Checker::check: every row must be zero; the first row that is not is
\* reported with its value and the check fails.
Check(pair, exp) ==
    LET rows == CheckRows(pair, exp)
        bad == {row \in DOMAIN rows : rows[row] # 0}
    IN IF bad = {} THEN [checked |-> TRUE, ok |-> TRUE]
       ELSE LET first == CHOOSE row \in bad : \A o \in bad : row <= o
            IN [checked |-> TRUE, ok |-> FALSE, row |-> first, value |-> rows[first]]

InitCheck == Idle

\* ExtendedProvider::new(instance, witness)
CheckerNew ==
    \E pair \in SampleCheckPairs :
        /\ ~checker.held
        /\ checker' = pair
        /\ checkResult' = NoCheck
        /\ UNCHANGED <<foldingVars, schemeCall, mipsVars>>

\* checker.check(&final_constraint): the checker is borrowed, not changed.
CallCheck ==
    /\ checker.held /\ ~checkResult.checked
    /\ checkResult' = Check(checker, Scheme.final_constraint)
    /\ UNCHANGED <<foldingVars, schemeCall, checker, mipsVars>>

\* let ExtendedProvider { instance, witness, .. } = checker
TakeOut ==
    /\ checker.held /\ checkResult.checked
    /\ checker' = NoPair
    /\ checkResult' = NoCheck
    /\ UNCHANGED <<foldingVars, schemeCall, mipsVars>>

NextCheck == CheckerNew \/ CallCheck \/ TakeOut

SpecCheck == InitCheck /\ [][NextCheck]_vars

\* The residue in Fp of an integer that may be negative.
Residue(x) == ((x % P) + P) % P

\* The constraint of gate s in a row of the pair, times the alpha power of
\* the gate: alpha^0 (a + b - c) for SelecAdd, alpha^1 (a - b - c) for
\* SelecSub.
GateValue(pair, s, row) ==
    LET a == pair.witness[0][row]
        b == pair.witness[1][row]
        c == pair.witness[2][row]
    IN IF s = "SelecAdd"
       THEN Residue(pair.instance.alphas[0] * (a + b - c))
       ELSE Residue(pair.instance.alphas[1] * (a - b - c))

\* final_constraint in a row of the pair, written out: each gate's value
\* times its indicator, minus the error of the row.
RowValue(pair, row) ==
    Residue(pair.witness[3][row] * GateValue(pair, "SelecAdd", row)
            + pair.witness[4][row] * GateValue(pair, "SelecSub", row)
            - pair.error_vec[row])

\* No indicator is 1 in the row.
NoSelector(pair, row) ==
    \A s \in DynamicSelector : IndexSelector(pair.witness, s)[row] = 0

\* The indicator of s is 1 in the row and every other indicator is 0.
OnlySelector(pair, s, row) ==
    /\ IndexSelector(pair.witness, s)[row] = 1
    /\ \A o \in DynamicSelector \ {s} : IndexSelector(pair.witness, o)[row] = 0

C13_Outcome ==
    checkResult.checked =>
        LET e == EnvNew([side \in Side |-> checker.instance],
                        [side \in Side |-> checker.witness])
            rows == 0..(WitnessRows(checker.witness) - 1)
        IN /\ checker.held
           /\ \A side \in Side :
                /\ e.instances[side] = checker.instance
                /\ e.curr_witnesses[side] = checker.witness
                /\ \A row \in rows :
                     Eval(Scheme.final_constraint, e, side, row, checker.error_vec)
                         = RowValue(checker, row)
           /\ checkResult.ok <=> \A row \in rows : RowValue(checker, row) = 0
           /\ ~checkResult.ok =>
                /\ checkResult.row \in rows
                /\ checkResult.value = RowValue(checker, checkResult.row)
                /\ checkResult.value # 0
                /\ \A row \in rows :
                     row < checkResult.row => RowValue(checker, row) = 0

\* A step that makes a check leaves the checker's pair as it was.
C13_Frame == (~checkResult.checked /\ checkResult'.checked) => checker' = checker

\* C13: Checker::new(instance, witness).check(expression) evaluates the
\* expression in every row with an Env that has the checked pair on both
\* sides; it succeeds iff every row is zero, and otherwise fails, reporting
\* the index and the nonzero value of the first violated row; the check
\* leaves the instance and the witness unchanged.
C13_CheckerOutcome == []C13_Outcome /\ [][C13_Frame]_vars

\* A check of a relaxed pair that fails in both rows and reports row 0.
C13_Witness ==
    /\ checker.held /\ checkResult.checked
    /\ ~checkResult.ok
    /\ checker.error_vec # ZeroVec
    /\ \A row \in 0..(DomainRows - 1) : RowValue(checker, row) # 0
    /\ RowValue(checker, 0) # RowValue(checker, 1)
    /\ checkResult.row = 0

---------------------------------------------------------------------------
(* The Env of mips/constraints.rs.                                         *)

\* The operations that push to the Env or allocate are called at most
\* MaxOps times in all.
MaxOps == 3

\* A usize: a number, from 0 or from one of the offsets imported from
\* column.rs and registers.rs, whose values are left open.
Usize(n) == [base |-> "0", off |-> n]

MIPS_HASH_COUNTER_OFFSET == [base |-> "MIPS_HASH_COUNTER_OFFSET", off |-> 0]

MIPS_PREIMAGE_LEFT_OFFSET == [base |-> "MIPS_PREIMAGE_LEFT_OFFSET", off |-> 0]

REGISTER_PREIMAGE_OFFSET == [base |-> "REGISTER_PREIMAGE_OFFSET", off |-> 0]

REGISTER_PREIMAGE_KEY_START == [base |-> "REGISTER_PREIMAGE_KEY_START", off |-> 0]

\* usize + usize
UsizeAdd(u, i) == [base |-> u.base, off |-> u.off + i]

\* MIPSColumn::ScratchState(idx)
ScratchState(idx) == [col |-> "ScratchState", idx |-> idx]

\* MIPSColumn::InstructionCounter
InstructionCounter == [col |-> "InstructionCounter"]

\* Expr::Atom(ExprInner::Cell(Variable { col, row }))
Cell(col, row) == [op |-> "Cell", col |-> col, row |-> row]

\* Expr::from(x as u64)
ExpConst(x) == [op |-> "Constant", value |-> x]

\* Expr::from(2u64.pow(32))
ExpPow2(e) == [op |-> "Constant", pow2 |-> e]

\* Lookup::write_one(table_id, value)
LookupWriteOne(table_id, value) ==
    [ctor |-> "write_one", table_id |-> table_id, value |-> value]

\* Lookup::read_if(if_is_true, table_id, value)
LookupReadIf(if_is_true, table_id, value) ==
    [ctor |-> "read_if", if_is_true |-> if_is_true,
     table_id |-> table_id, value |-> value]

\* The positions, variables and lookups the operations are called with.
SamplePositions == {ScratchState(Usize(0)), InstructionCounter}

SampleVariables == {ExpConst(1), Cell(ScratchState(Usize(1)), "Curr")}

SampleLookups ==
    {LookupWriteOne("SyscallLookup", <<v>>) : v \in SampleVariables}

\* The value of a function that returns nothing.
Unit == << >>

\* How many pushes and allocations the Env has seen.
Grown(self) ==
    self.scratch_state_idx + Len(self.constraints) + Len(self.lookups)

\* A call on the Env: the arguments kept of it, what it returns and the
\* Env it leaves.
MipsOp(op, kept, positions, result, self) ==
    /\ mipsCall = NoCall
    /\ mipsCall' = [op |-> op, kept |-> kept, positions |-> positions,
                    result |-> result]
    /\ mipsEnv' = self
    /\ allocated' = IF op = "alloc_scratch" THEN Append(allocated, result)
                    ELSE allocated
    /\ UNCHANGED <<foldingVars, schemeCall, checkVars>>

InitMips == Idle

\* as AllocScratch, the index returned after the increment
AllocScratchIncrementFirst ==
    /\ Grown(mipsEnv) < MaxOps
    /\ LET scratch_idx == mipsEnv.scratch_state_idx + 1
       IN MipsOp("alloc_scratch", << >>, << >>, ScratchState(Usize(scratch_idx)),
                 [mipsEnv EXCEPT !.scratch_state_idx = @ + 1])

AllocScratch ==
    /\ Grown(mipsEnv) < MaxOps
    /\ LET scratch_idx == mipsEnv.scratch_state_idx
       IN MipsOp("alloc_scratch", << >>, << >>, ScratchState(Usize(scratch_idx)),
                 [mipsEnv EXCEPT !.scratch_state_idx = @ + 1])

AddConstraint ==
    \E assert_equals_zero \in SampleVariables :
        /\ Grown(mipsEnv) < MaxOps
        /\ MipsOp("add_constraint", <<assert_equals_zero>>, << >>, Unit,
                  [mipsEnv EXCEPT !.constraints = Append(@, assert_equals_zero)])

CheckIsZero ==
    \E assert_equals_zero \in SampleVariables :
        MipsOp("check_is_zero", << >>, << >>, Unit, mipsEnv)

CheckEqual ==
    \E x \in SampleVariables, y \in SampleVariables :
        MipsOp("check_equal", << >>, << >>, Unit, mipsEnv)

CheckBoolean ==
    \E x \in SampleVariables :
        MipsOp("check_boolean", << >>, << >>, Unit, mipsEnv)

AddLookup ==
    \E lookup \in SampleLookups :
        /\ Grown(mipsEnv) < MaxOps
        /\ MipsOp("add_lookup", <<lookup>>, << >>, Unit,
                  [mipsEnv EXCEPT !.lookups = Append(@, lookup)])

InstructionCounterOp ==
    MipsOp("instruction_counter", << >>, << >>,
           Cell(InstructionCounter, "Curr"), mipsEnv)

FetchRegister ==
    \E idx \in SampleVariables, output \in SamplePositions :
        MipsOp("fetch_register", << >>, <<output>>, Cell(output, "Curr"), mipsEnv)

PushRegisterIf ==
    \E idx \in SampleVariables, value \in SampleVariables,
       if_is_true \in SampleVariables :
        MipsOp("push_register_if", << >>, << >>, Unit, mipsEnv)

FetchRegisterAccess ==
    \E idx \in SampleVariables, output \in SamplePositions :
        MipsOp("fetch_register_access", << >>, <<output>>, Cell(output, "Curr"),
               mipsEnv)

PushRegisterAccessIf ==
    \E idx \in SampleVariables, value \in SampleVariables,
       if_is_true \in SampleVariables :
        MipsOp("push_register_access_if", << >>, << >>, Unit, mipsEnv)

FetchMemory ==
    \E addr \in SampleVariables, output \in SamplePositions :
        MipsOp("fetch_memory", << >>, <<output>>, Cell(output, "Curr"), mipsEnv)

PushMemory ==
    \E addr \in SampleVariables, value \in SampleVariables :
        MipsOp("push_memory", << >>, << >>, Unit, mipsEnv)

FetchMemoryAccess ==
    \E addr \in SampleVariables, output \in SamplePositions :
        MipsOp("fetch_memory_access", << >>, <<output>>, Cell(output, "Curr"),
               mipsEnv)

PushMemoryAccess ==
    \E addr \in SampleVariables, value \in SampleVariables :
        MipsOp("push_memory_access", << >>, << >>, Unit, mipsEnv)

\* constant(x: u32)
ConstantOp ==
    \E x \in {0, 1} :
        MipsOp("constant", << >>, << >>, ExpConst(x), mipsEnv)

\* bitmask(x, highest_bit: u32, lowest_bit: u32, position)
Bitmask ==
    \E x \in SampleVariables, highest_bit \in {1}, lowest_bit \in {0},
       position \in SamplePositions :
        MipsOp("bitmask", << >>, <<position>>, Cell(position, "Curr"), mipsEnv)

ShiftLeft ==
    \E x \in SampleVariables, by \in SampleVariables, position \in SamplePositions :
        MipsOp("shift_left", << >>, <<position>>, Cell(position, "Curr"), mipsEnv)

ShiftRight ==
    \E x \in SampleVariables, by \in SampleVariables, position \in SamplePositions :
        MipsOp("shift_right", << >>, <<position>>, Cell(position, "Curr"), mipsEnv)

ShiftRightArithmetic ==
    \E x \in SampleVariables, by \in SampleVariables, position \in SamplePositions :
        MipsOp("shift_right_arithmetic", << >>, <<position>>, Cell(position, "Curr"), mipsEnv)

TestZero ==
    \E x \in SampleVariables, position \in SamplePositions :
        MipsOp("test_zero", << >>, <<position>>, Cell(position, "Curr"), mipsEnv)

InverseOrZero ==
    \E x \in SampleVariables, position \in SamplePositions :
        MipsOp("inverse_or_zero", << >>, <<position>>, Cell(position, "Curr"), mipsEnv)

TestLessThan ==
    \E x \in SampleVariables, y \in SampleVariables, position \in SamplePositions :
        MipsOp("test_less_than", << >>, <<position>>, Cell(position, "Curr"), mipsEnv)

TestLessThanSigned ==
    \E x \in SampleVariables, y \in SampleVariables, position \in SamplePositions :
        MipsOp("test_less_than_signed", << >>, <<position>>, Cell(position, "Curr"), mipsEnv)

AndWitness ==
    \E x \in SampleVariables, y \in SampleVariables, position \in SamplePositions :
        MipsOp("and_witness", << >>, <<position>>, Cell(position, "Curr"), mipsEnv)

NorWitness ==
    \E x \in SampleVariables, y \in SampleVariables, position \in SamplePositions :
        MipsOp("nor_witness", << >>, <<position>>, Cell(position, "Curr"), mipsEnv)

OrWitness ==
    \E x \in SampleVariables, y \in SampleVariables, position \in SamplePositions :
        MipsOp("or_witness", << >>, <<position>>, Cell(position, "Curr"), mipsEnv)

XorWitness ==
    \E x \in SampleVariables, y \in SampleVariables, position \in SamplePositions :
        MipsOp("xor_witness", << >>, <<position>>, Cell(position, "Curr"), mipsEnv)

AddWitnessOp ==
    \E y \in SampleVariables, x \in SampleVariables,
       out_position \in SamplePositions, overflow_position \in SamplePositions :
        MipsOp("add_witness", << >>, <<out_position, overflow_position>>,
               <<Cell(out_position, "Curr"), Cell(overflow_position, "Curr")>>, mipsEnv)

SubWitnessOp ==
    \E y \in SampleVariables, x \in SampleVariables,
       out_position \in SamplePositions, underflow_position \in SamplePositions :
        MipsOp("sub_witness", << >>, <<out_position, underflow_position>>,
               <<Cell(out_position, "Curr"), Cell(underflow_position, "Curr")>>, mipsEnv)

MulSignedWitness ==
    \E x \in SampleVariables, y \in SampleVariables, position \in SamplePositions :
        MipsOp("mul_signed_witness", << >>, <<position>>, Cell(position, "Curr"), mipsEnv)

MulHiLoSigned ==
    \E x \in SampleVariables, y \in SampleVariables,
       position_hi \in SamplePositions, position_lo \in SamplePositions :
        MipsOp("mul_hi_lo_signed", << >>, <<position_hi, position_lo>>,
               <<Cell(position_hi, "Curr"), Cell(position_lo, "Curr")>>, mipsEnv)

\* as MulHiLo, the two cells returned in the other order
MulHiLoSwapped ==
    \E x \in SampleVariables, y \in SampleVariables,
       position_hi \in SamplePositions, position_lo \in SamplePositions :
        MipsOp("mul_hi_lo", << >>, <<position_hi, position_lo>>,
               <<Cell(position_lo, "Curr"), Cell(position_hi, "Curr")>>, mipsEnv)

MulHiLo ==
    \E x \in SampleVariables, y \in SampleVariables,
       position_hi \in SamplePositions, position_lo \in SamplePositions :
        MipsOp("mul_hi_lo", << >>, <<position_hi, position_lo>>,
               <<Cell(position_hi, "Curr"), Cell(position_lo, "Curr")>>, mipsEnv)

DivmodSigned ==
    \E x \in SampleVariables, y \in SampleVariables,
       position_quotient \in SamplePositions, position_remainder \in SamplePositions :
        MipsOp("divmod_signed", << >>, <<position_quotient, position_remainder>>,
               <<Cell(position_quotient, "Curr"), Cell(position_remainder, "Curr")>>, mipsEnv)

Divmod ==
    \E x \in SampleVariables, y \in SampleVariables,
       position_quotient \in SamplePositions, position_remainder \in SamplePositions :
        MipsOp("divmod", << >>, <<position_quotient, position_remainder>>,
               <<Cell(position_quotient, "Curr"), Cell(position_remainder, "Curr")>>, mipsEnv)

CountLeadingZeros ==
    \E x \in SampleVariables, position \in SamplePositions :
        MipsOp("count_leading_zeros", << >>, <<position>>, Cell(position, "Curr"), mipsEnv)

\* as Copy, the constraint pushed the other way round
CopyReversed ==
    \E x \in SampleVariables, position \in SamplePositions :
        /\ Grown(mipsEnv) < MaxOps
        /\ LET res == Cell(position, "Curr")
           IN MipsOp("copy", <<x>>, <<position>>, res,
                     [mipsEnv EXCEPT !.constraints = Append(@, ExpSub(res, x))])

Copy ==
    \E x \in SampleVariables, position \in SamplePositions :
        /\ Grown(mipsEnv) < MaxOps
        /\ LET res == Cell(position, "Curr")
           IN MipsOp("copy", <<x>>, <<position>>, res,
                     [mipsEnv EXCEPT !.constraints = Append(@, ExpSub(x, res))])

SetHalted ==
    \E flag \in SampleVariables :
        MipsOp("set_halted", << >>, << >>, Unit, mipsEnv)

ReportExit ==
    \E exit_code \in SampleVariables :
        MipsOp("report_exit", << >>, << >>, Unit, mipsEnv)

RECURSIVE PreimageKey(_)
\* (0..n).fold(Expr::from(0), |acc, i| acc * Expr::from(2u64.pow(32))
\*     + cell of ScratchState(REGISTER_PREIMAGE_KEY_START + i))
PreimageKey(n) ==
    IF n = 0 THEN ExpConst(0)
    ELSE ExpAdd(ExpMul(PreimageKey(n - 1), ExpPow2(32)),
                Cell(ScratchState(UsizeAdd(REGISTER_PREIMAGE_KEY_START, n - 1)),
                     "Curr"))

RequestPreimageWrite ==
    \E addr \in SampleVariables, len \in SampleVariables, pos \in SamplePositions :
        /\ Grown(mipsEnv) + 2 <= MaxOps
        /\ LET read_chunk == Cell(pos, "Curr")
               hash_counter == Cell(ScratchState(MIPS_HASH_COUNTER_OFFSET), "Curr")
               preimage_left == Cell(ScratchState(MIPS_PREIMAGE_LEFT_OFFSET), "Curr")
               preimage_counter == Cell(ScratchState(REGISTER_PREIMAGE_OFFSET), "Curr")
               write == LookupWriteOne("SyscallLookup",
                            <<hash_counter, preimage_counter, read_chunk>>)
               preimage_key == PreimageKey(8)
               end_of_preimage == ExpSub(ExpConst(1), preimage_left)
               read == LookupReadIf(end_of_preimage, "SyscallLookup",
                           <<hash_counter, preimage_key>>)
           IN MipsOp("request_preimage_write", << >>, <<pos>>, read_chunk,
                     [mipsEnv EXCEPT !.lookups = Append(Append(@, write), read)])

RequestHintWrite ==
    \E addr \in SampleVariables, len \in SampleVariables :
        MipsOp("request_hint_write", << >>, << >>, Unit, mipsEnv)

\* The caller takes what the operation returned.
ReturnMips ==
    /\ mipsCall # NoCall
    /\ mipsCall' = NoCall
    /\ UNCHANGED <<foldingVars, schemeCall, checkVars, mipsEnv, allocated>>

NextMips ==
    \/ AllocScratch
    \/ AddConstraint
    \/ CheckIsZero
    \/ CheckEqual
    \/ CheckBoolean
    \/ AddLookup
    \/ InstructionCounterOp
    \/ FetchRegister
    \/ PushRegisterIf
    \/ FetchRegisterAccess
    \/ PushRegisterAccessIf
    \/ FetchMemory
    \/ PushMemory
    \/ FetchMemoryAccess
    \/ PushMemoryAccess
    \/ ConstantOp
    \/ Bitmask
    \/ ShiftLeft
    \/ ShiftRight
    \/ ShiftRightArithmetic
    \/ TestZero
    \/ InverseOrZero
    \/ TestLessThan
    \/ TestLessThanSigned
    \/ AndWitness
    \/ NorWitness
    \/ OrWitness
    \/ XorWitness
    \/ AddWitnessOp
    \/ SubWitnessOp
    \/ MulSignedWitness
    \/ MulHiLoSigned
    \/ MulHiLo
    \/ DivmodSigned
    \/ Divmod
    \/ CountLeadingZeros
    \/ Copy
    \/ SetHalted
    \/ ReportExit
    \/ RequestPreimageWrite
    \/ RequestHintWrite
    \/ ReturnMips

SpecMips == InitMips /\ [][NextMips]_vars

\* Sequence s is the beginning of sequence t.
IsPrefix(s, t) == Len(s) <= Len(t) /\ SubSeq(t, 1, Len(s)) = s

\* The positions handed out so far are ScratchState(0), ScratchState(1),
\* ... in order, as many as scratch_state_idx says, and the call in
\* progress returned the last of them.
C14_Allocated ==
    /\ Len(allocated) = mipsEnv.scratch_state_idx
    /\ \A k \in 1..Len(allocated) : allocated[k] = ScratchState(Usize(k - 1))
    /\ \A j \in 1..Len(allocated) : \A k \in 1..Len(allocated) :
          j # k => allocated[j] # allocated[k]
    /\ mipsCall.op = "alloc_scratch" =>
          /\ mipsCall.result = ScratchState(Usize(mipsEnv.scratch_state_idx - 1))
          /\ mipsCall.result = allocated[Len(allocated)]

\* A call of alloc_scratch at scratch_state_idx = n returns ScratchState(n)
\* and leaves n + 1; no other step changes scratch_state_idx.
C14_Step ==
    /\ mipsEnv'.scratch_state_idx >= mipsEnv.scratch_state_idx
    /\ (mipsCall = NoCall /\ mipsCall'.op = "alloc_scratch") =>
          /\ mipsEnv'.scratch_state_idx = mipsEnv.scratch_state_idx + 1
          /\ mipsCall'.result = ScratchState(Usize(mipsEnv.scratch_state_idx))
    /\ mipsEnv'.scratch_state_idx # mipsEnv.scratch_state_idx =>
          mipsCall'.op = "alloc_scratch"

\* C14: alloc_scratch hands out fresh scratch columns: a call at
\* scratch_state_idx = n returns ScratchState(n) and leaves n + 1 (so the
\* k-th call after n returns ScratchState(n + k - 1) and leaves n + k), no
\* two calls return the same column, scratch_state_idx never decreases and
\* no other operation changes it.
C14_FreshScratch == []C14_Allocated /\ [][C14_Step]_vars

\* A second allocation, made after a constraint was pushed.
C14_Witness ==
    /\ mipsCall.op = "alloc_scratch"
    /\ mipsEnv.scratch_state_idx = 2
    /\ Len(mipsEnv.constraints) = 1
    /\ mipsCall.result = ScratchState(Usize(1))

\* The witness-only operations that return one cell, two cells, nothing.
OneCellOps ==
    {"fetch_register", "fetch_register_access", "fetch_memory",
     "fetch_memory_access", "bitmask", "shift_left", "shift_right",
     "shift_right_arithmetic", "test_zero", "inverse_or_zero",
     "test_less_than", "test_less_than_signed", "and_witness", "nor_witness",
     "or_witness", "xor_witness", "mul_signed_witness", "count_leading_zeros"}

TwoCellOps ==
    {"add_witness", "sub_witness", "mul_hi_lo_signed", "mul_hi_lo",
     "divmod_signed", "divmod"}

NoValueOps ==
    {"check_is_zero", "check_equal", "check_boolean", "push_register_if",
     "push_register_access_if", "push_memory", "push_memory_access",
     "set_halted", "report_exit", "request_hint_write"}

WitnessOnlyOps == OneCellOps \cup TwoCellOps \cup NoValueOps

\* A witness-only operation that returns a variable returns the
\* current-row cell of each position it was given.
C15_Returns ==
    /\ mipsCall.op \in OneCellOps =>
          /\ Len(mipsCall.positions) = 1
          /\ mipsCall.result =
                [op |-> "Cell", col |-> mipsCall.positions[1], row |-> "Curr"]
    /\ mipsCall.op \in TwoCellOps =>
          /\ Len(mipsCall.positions) = 2
          /\ mipsCall.result =
                <<[op |-> "Cell", col |-> mipsCall.positions[1], row |-> "Curr"],
                  [op |-> "Cell", col |-> mipsCall.positions[2], row |-> "Curr"]>>
    /\ mipsCall.op \in NoValueOps => mipsCall.result = Unit

\* A witness-only operation leaves the Env as it was; constraints and
\* lookups only grow at their end, and only by the operations that push.
C15_Step ==
    /\ (mipsCall = NoCall /\ mipsCall'.op \in WitnessOnlyOps) => mipsEnv' = mipsEnv
    /\ IsPrefix(mipsEnv.constraints, mipsEnv'.constraints)
    /\ IsPrefix(mipsEnv.lookups, mipsEnv'.lookups)
    /\ mipsEnv'.constraints # mipsEnv.constraints =>
          mipsCall'.op \in {"add_constraint", "copy"}
    /\ mipsEnv'.lookups # mipsEnv.lookups =>
          mipsCall'.op \in {"add_lookup", "request_preimage_write"}

\* C15: the witness-only hooks (check_*, fetch_*, push_*, the arithmetic,
\* bitwise and test witness operations, set_halted, report_exit,
\* request_hint_write) leave constraints, lookups and scratch_state_idx
\* unchanged, those that return a variable return the current-row cell of
\* the position(s) passed in, and constraints and lookups are append-only:
\* only add_constraint and copy extend constraints, only add_lookup and
\* request_preimage_write extend lookups.
C15_WitnessOnlyHooks == []C15_Returns /\ [][C15_Step]_vars

\* mul_hi_lo called with two different positions on an Env that holds a
\* constraint, a lookup and an allocated column.
C15_Witness ==
    /\ mipsCall.op = "mul_hi_lo"
    /\ mipsCall.positions[1] # mipsCall.positions[2]
    /\ mipsEnv.scratch_state_idx = 1
    /\ Len(mipsEnv.constraints) = 1
    /\ Len(mipsEnv.lookups) = 1

\* copy(x, position) pushes x - cell(position, Curr) and returns the cell.
C16_Copy ==
    (mipsCall = NoCall /\ mipsCall'.op = "copy") =>
        LET x == mipsCall'.kept[1]
            cell == [op |-> "Cell", col |-> mipsCall'.positions[1], row |-> "Curr"]
        IN /\ mipsEnv'.constraints =
                 Append(mipsEnv.constraints, [op |-> "Sub", l |-> x, r |-> cell])
           /\ mipsCall'.result = cell
           /\ mipsEnv'.lookups = mipsEnv.lookups
           /\ mipsEnv'.scratch_state_idx = mipsEnv.scratch_state_idx

\* request_preimage_write pushes the write lookup, then the read lookup,
\* and returns the cell of pos.
C16_Preimage ==
    (mipsCall = NoCall /\ mipsCall'.op = "request_preimage_write") =>
        LET read_chunk == [op |-> "Cell", col |-> mipsCall'.positions[1],
                           row |-> "Curr"]
            hash_counter == Cell(ScratchState(MIPS_HASH_COUNTER_OFFSET), "Curr")
            preimage_counter == Cell(ScratchState(REGISTER_PREIMAGE_OFFSET), "Curr")
            preimage_left == Cell(ScratchState(MIPS_PREIMAGE_LEFT_OFFSET), "Curr")
            n == Len(mipsEnv.lookups)
        IN /\ Len(mipsEnv'.lookups) = n + 2
           /\ SubSeq(mipsEnv'.lookups, 1, n) = mipsEnv.lookups
           /\ mipsEnv'.lookups[n + 1] =
                 [ctor |-> "write_one", table_id |-> "SyscallLookup",
                  value |-> <<hash_counter, preimage_counter, read_chunk>>]
           /\ mipsEnv'.lookups[n + 2] =
                 [ctor |-> "read_if",
                  if_is_true |-> [op |-> "Sub", l |-> ExpConst(1), r |-> preimage_left],
                  table_id |-> "SyscallLookup",
                  value |-> <<hash_counter, PreimageKey(8)>>]
           /\ mipsEnv'.constraints = mipsEnv.constraints
           /\ mipsEnv'.scratch_state_idx = mipsEnv.scratch_state_idx
           /\ mipsCall'.result = read_chunk

\* C16: copy(x, position) appends exactly one constraint, x -
\* cell(position, Curr), to the end of constraints and returns
\* cell(position, Curr), leaving lookups and scratch_state_idx unchanged;
\* request_preimage_write appends exactly two lookups, first the write of
\* [hash_counter, preimage_counter, read_chunk], then the read of
\* [hash_counter, preimage_key] conditioned on 1 - preimage_left, appends
\* no constraint and returns the current-row cell of pos.
C16_CopyAndPreimageWrite == [][C16_Copy /\ C16_Preimage]_vars

\* request_preimage_write returning on an Env whose one constraint came
\* from a copy of a variable that is not the cell copied to.
C16_Witness ==
    /\ mipsCall.op = "request_preimage_write"
    /\ Len(mipsEnv.lookups) = 2
    /\ mipsEnv.lookups[1].ctor = "write_one"
    /\ mipsEnv.lookups[2].ctor = "read_if"
    /\ Len(mipsEnv.constraints) = 1
    /\ mipsEnv.constraints[1].op = "Sub"
    /\ mipsEnv.constraints[1].l # mipsEnv.constraints[1].r

=============================================================================
